---- MODULE Spec2Model ----
(***************************************************************************)
(* PathFinder (src/src/lib.rs): breadth-first search on a square grid given *)
(* as a flat vector, from (0,0) to (n-1,n-1), with the two queries         *)
(* has_path() and path().                                                  *)
(*                                                                         *)
(* The grid is a TLA+ sequence, so the Rust element grid[i] is grid[i+1].  *)
(* One action per step of the code: Enter (lines 75-84), PopFront (88-91), *)
(* Expand (one iteration of the for loop, 93-106), Exhausted (110), and    *)
(* the two queries.  An index out of range is a Rust panic.  usize         *)
(* arithmetic cannot wrap at the sizes explored here, except n*n - 1 for   *)
(* n = 0, which either panics (overflow check) or wraps to usize::MAX and  *)
(* then panics on the index: a panic in every build.                       *)
(***************************************************************************)
EXTENDS Integers, Sequences, FiniteSets, TLC

VARIABLES grid, n, pc, outcome, queue, visited, parent, cur, d, path,
          dequeued, expanded, hasCalls, pathCalls

vars == <<grid, n, pc, outcome, queue, visited, parent, cur, d, path,
          dequeued, expanded, hasCalls, pathCalls>>

\* Largest grid side explored with well-formed input.
MaxN == 3
\* Largest number of query calls made on one instance.
MaxCalls == 2
\* Largest side and largest vector length explored with arbitrary input.
MaxAnyN == 2
MaxAnyLen == 5

----------------------------------------------------------------------------
\* Pure parts of the code

Cells(nn) == (0 .. nn - 1) \X (0 .. nn - 1)

EmptyParent == [c \in {} |-> <<0, 0>>]

EmptyVisited == [i \in {} |-> FALSE]

\* let dirs = [(1, 0), (0, 1), (-1, 0), (0, -1)];
dirsDiagonal == << <<1, 1>>, <<0, 1>>, <<-1, 0>>, <<0, -1>> >>

dirs == << <<1, 0>>, <<0, 1>>, <<-1, 0>>, <<0, -1>> >>

\* grid[i] == 0
BlockedNever(g, i) == FALSE

Blocked(g, i) == g[i + 1] = 0

\* (x, y) == (n - 1, n - 1)
IsDestNever(c, nn) == FALSE

IsDest(c, nn) == c = <<nn - 1, nn - 1>>

\* nx < n && ny < n && grid[idx] == 1 && !visited[idx], with idx = nx * n + ny
AcceptBlockedToo(g, nn, vis, nx, ny) ==
    /\ nx < nn
    /\ ny < nn
    /\ ~vis[nx * nn + ny]

Accept(g, nn, vis, nx, ny) ==
    /\ nx < nn
    /\ ny < nn
    /\ g[nx * nn + ny + 1] = 1
    /\ ~vis[nx * nn + ny]

\* visited[idx] = true
MarkVisitedForgotten(vis, idx) == vis

MarkVisited(vis, idx) == [vis EXCEPT ![idx] = TRUE]

\* parent.insert(k, v)
insert(par, k, v) ==
    [c \in (DOMAIN par) \cup {k} |-> IF c = k THEN v ELSE par[c]]

\* queue.push_back(c)
push_back(q, c) == Append(q, c)

Reverse(s) == [i \in 1 .. Len(s) |-> s[Len(s) + 1 - i]]

\* The loop of build_path: end, parent[end], parent[parent[end]], ...
RECURSIVE Chain(_, _)
Chain(par, end) ==
    IF end \in DOMAIN par THEN <<end>> \o Chain(par, par[end]) ELSE <<end>>

build_pathNoReverse(par, end) == Chain(par, end)

build_path(par, end) == Reverse(Chain(par, end))

\* !self.path.is_empty()
has_path(p) == p # << >>

\* self.path.iter().flat_map(|(x, y)| vec![*x, *y]).collect()
RECURSIVE FlatSwapped(_)
FlatSwapped(p) ==
    IF p = << >> THEN << >> ELSE <<p[1][2], p[1][1]>> \o FlatSwapped(Tail(p))

RECURSIVE Flat(_)
Flat(p) ==
    IF p = << >> THEN << >> ELSE <<p[1][1], p[1][2]>> \o Flat(Tail(p))

----------------------------------------------------------------------------
\* Inputs

RECURSIVE Vectors(_)
Vectors(len) ==
    IF len = 0 THEN {<< >>}
    ELSE {Append(v, b) : v \in Vectors(len - 1), b \in {0, 1}}

ValidInput == n >= 1 /\ Len(grid) = n * n

Fresh ==
    /\ pc = "entry"
    /\ outcome = "none"
    /\ queue = << >>
    /\ visited = EmptyVisited
    /\ parent = EmptyParent
    /\ cur = <<0, 0>>
    /\ d = 1
    /\ path = << >>
    /\ dequeued = << >>
    /\ expanded = {}
    /\ hasCalls = << >>
    /\ pathCalls = << >>

\* PathFinder::new called with a well-formed grid
Init ==
    /\ n \in 1 .. MaxN
    /\ grid \in Vectors(n * n)
    /\ Fresh

\* PathFinder::new called with any vector and any size
InitAny ==
    /\ n \in 0 .. MaxAnyN
    /\ \E len \in 0 .. MaxAnyLen : grid \in Vectors(len)
    /\ Fresh

----------------------------------------------------------------------------
\* Steps of bfs

Return(p) ==
    /\ pc' = "done"
    /\ outcome' = "ok"
    /\ path' = p

Panic ==
    /\ pc' = "done"
    /\ outcome' = "panic"
    /\ path' = path

\* Lines 75-84
Enter ==
    /\ pc = "entry"
    /\ IF Len(grid) = 0
       THEN Panic /\ UNCHANGED <<queue, visited>>
       ELSE IF Blocked(grid, 0)
       THEN Return(<< >>) /\ UNCHANGED <<queue, visited>>
       ELSE IF n * n - 1 < 0 \/ n * n - 1 >= Len(grid)
       THEN Panic /\ UNCHANGED <<queue, visited>>
       ELSE IF Blocked(grid, n * n - 1)
       THEN Return(<< >>) /\ UNCHANGED <<queue, visited>>
       ELSE /\ queue' = push_back(<< >>, <<0, 0>>)
            /\ visited' = MarkVisited([i \in 0 .. n * n - 1 |-> FALSE], 0)
            /\ pc' = "pop"
            /\ UNCHANGED <<outcome, path>>
    /\ UNCHANGED <<grid, n, parent, cur, d, dequeued, expanded,
                   hasCalls, pathCalls>>

\* Lines 88-91: while let Some((x, y)) = queue.pop_front()
PopFront ==
    /\ pc = "pop"
    /\ queue # << >>
    /\ cur' = Head(queue)
    /\ queue' = Tail(queue)
    /\ dequeued' = Append(dequeued, Head(queue))
    /\ IF IsDest(Head(queue), n)
       THEN /\ Return(build_path(parent, Head(queue)))
            /\ UNCHANGED <<d, expanded>>
       ELSE /\ pc' = "dirs"
            /\ d' = 1
            /\ expanded' = expanded \cup {Head(queue)}
            /\ UNCHANGED <<outcome, path>>
    /\ UNCHANGED <<grid, n, visited, parent, hasCalls, pathCalls>>

\* Lines 93-106: one iteration of for (dx, dy) in dirs
Expand ==
    /\ pc = "dirs"
    /\ LET nx == cur[1] + dirs[d][1]
           ny == cur[2] + dirs[d][2]
       IN  IF nx >= 0 /\ ny >= 0 /\ Accept(grid, n, visited, nx, ny)
           THEN /\ visited' = MarkVisited(visited, nx * n + ny)
                /\ parent' = insert(parent, <<nx, ny>>, cur)
                /\ queue' = push_back(queue, <<nx, ny>>)
           ELSE UNCHANGED <<visited, parent, queue>>
    /\ IF d < Len(dirs)
       THEN d' = d + 1 /\ pc' = "dirs"
       ELSE d' = 1 /\ pc' = "pop"
    /\ UNCHANGED <<grid, n, outcome, cur, path, dequeued, expanded,
                   hasCalls, pathCalls>>

\* Line 110: the queue ran empty
Exhausted ==
    /\ pc = "pop"
    /\ queue = << >>
    /\ Return(<< >>)
    /\ UNCHANGED <<grid, n, queue, visited, parent, cur, d, dequeued,
                   expanded, hasCalls, pathCalls>>

\* Lines 55-57
CallHasPath ==
    /\ pc = "done"
    /\ outcome = "ok"
    /\ Len(hasCalls) + Len(pathCalls) < MaxCalls
    /\ hasCalls' = Append(hasCalls, has_path(path))
    /\ UNCHANGED <<grid, n, pc, outcome, queue, visited, parent, cur, d,
                   path, dequeued, expanded, pathCalls>>

\* Lines 62-67
CallPath ==
    /\ pc = "done"
    /\ outcome = "ok"
    /\ Len(hasCalls) + Len(pathCalls) < MaxCalls
    /\ pathCalls' = Append(pathCalls, Flat(path))
    /\ UNCHANGED <<grid, n, pc, outcome, queue, visited, parent, cur, d,
                   path, dequeued, expanded, hasCalls>>

Run == Enter \/ PopFront \/ Expand \/ Exhausted

Next == Enter \/ PopFront \/ Expand \/ Exhausted \/ CallHasPath \/ CallPath

Spec == Init /\ [][Next]_vars

\* bfs runs to completion inside the constructing call.
FairSpec == Init /\ [][Next]_vars /\ WF_vars(Run)

SpecAny == InitAny /\ [][Next]_vars

----------------------------------------------------------------------------
\* Reference notions, independent of the steps above

Abs(k) == IF k < 0 THEN -k ELSE k

Adjacent(a, b) == Abs(a[1] - b[1]) + Abs(a[2] - b[2]) = 1

Index(c) == c[1] * n + c[2]

FreeCell(c) == c \in Cells(n) /\ grid[Index(c) + 1] = 1

Dest == <<n - 1, n - 1>>

\* Number of moves of a shortest route from the cells of frontier (all k
\* moves away from the start) to the destination, -1 if there is none.
RECURSIVE RefLayers(_, _, _)
RefLayers(seen, frontier, k) ==
    IF Dest \in frontier THEN k
    ELSE LET next == {c \in Cells(n) \ seen :
                         FreeCell(c) /\ \E f \in frontier : Adjacent(f, c)}
         IN  IF next = {} THEN -1
             ELSE RefLayers(seen \cup next, next, k + 1)

RefDist ==
    IF FreeCell(<<0, 0>>) THEN RefLayers({<<0, 0>>}, {<<0, 0>>}, 0) ELSE -1

Returned == pc = "done" /\ outcome = "ok"

Elems(s) == {s[i] : i \in 1 .. Len(s)}

Distinct(s) == \A i, j \in 1 .. Len(s) : s[i] = s[j] => i = j

EndBlocked == grid[1] = 0 \/ grid[n * n] = 0

----------------------------------------------------------------------------
\* C1: a non-empty path returned by bfs has as many cells as a shortest
\* route from (0,0) to (n-1,n-1) through free cells has (moves + 1),
\* according to the reference computation.
C1_Shortest ==
    (Returned /\ path # << >>) => Len(path) = RefDist + 1

\* A 3x3 grid with (1,0) and (1,1) blocked, where the only routes run along
\* the top row and the right column.
C1_Witness ==
    /\ Returned
    /\ n = 3
    /\ grid[4] = 0 /\ grid[5] = 0
    /\ path = << <<0, 0>>, <<0, 1>>, <<0, 2>>, <<1, 2>>, <<2, 2>> >>

\* C2: the stored path is empty, and has_path() false, exactly when the
\* destination cannot be reached from the start through free cells.
C2_EmptyIffUnreachable ==
    Returned =>
        /\ (path = << >>) <=> (RefDist = -1)
        /\ \A i \in 1 .. Len(hasCalls) : hasCalls[i] <=> (RefDist # -1)

\* Both ends are free, the search explored, found nothing and has_path()
\* answered false.
C2_Witness ==
    /\ Returned
    /\ ~EndBlocked
    /\ Len(dequeued) >= 2
    /\ path = << >>
    /\ hasCalls = <<FALSE>>

\* C3: when the start or the destination cell is blocked, bfs returns the
\* empty path without exploring anything; has_path() is false and path()
\* is the empty sequence.
C3_BlockedEnd ==
    EndBlocked =>
        /\ pc \in {"entry", "done"}
        /\ queue = << >> /\ dequeued = << >> /\ expanded = {}
        /\ visited = EmptyVisited /\ parent = EmptyParent
        /\ pc = "done" => outcome = "ok" /\ path = << >>
        /\ \A i \in 1 .. Len(hasCalls) : hasCalls[i] = FALSE
        /\ \A i \in 1 .. Len(pathCalls) : pathCalls[i] = << >>

\* The destination alone is blocked and both queries were answered.
C3_Witness ==
    /\ Returned
    /\ n >= 2
    /\ grid[1] = 1 /\ grid[n * n] = 0
    /\ Len(hasCalls) = 1 /\ Len(pathCalls) = 1

\* C4: a non-empty returned path starts at (0,0) and ends at (n-1,n-1); for
\* n = 1 it is the single cell (0,0).
C4_Endpoints ==
    (Returned /\ path # << >>) =>
        /\ path[1] = <<0, 0>>
        /\ path[Len(path)] = <<n - 1, n - 1>>
        /\ n = 1 => path = << <<0, 0>> >>

\* A path of several cells was returned.
C4_Witness == Returned /\ n >= 2 /\ Len(path) >= 3

\* C5: construction with size = 0 or a vector whose length is not size*size
\* ends in an explicit InvalidInput outcome and produces no path.  (The
\* code has no such outcome: it returns normally or panics.)
C5_InvalidRejected ==
    (pc = "done" /\ ~ValidInput) => (outcome = "InvalidInput" /\ path = << >>)

\* C6 as stated: on the all-free 2x2 grid the path has 2 cells.
C6_Original ==
    (Returned /\ n = 2 /\ grid = <<1, 1, 1, 1>>) =>
        /\ has_path(path)
        /\ path[1] = <<0, 0>>
        /\ path[Len(path)] = <<1, 1>>
        /\ Len(path) = 2

\* C6: on the all-free 2x2 grid has_path() is true and the path starts at
\* (0,0), ends at (1,1) and has 3 cells (2 moves).
C6_AllFree2x2 ==
    (Returned /\ n = 2 /\ grid = <<1, 1, 1, 1>>) =>
        /\ has_path(path)
        /\ \A i \in 1 .. Len(hasCalls) : hasCalls[i] = TRUE
        /\ path[1] = <<0, 0>>
        /\ path[Len(path)] = <<1, 1>>
        /\ Len(path) = 3

\* The all-free 2x2 grid was searched and has_path() asked.
C6_Witness ==
    Returned /\ n = 2 /\ grid = <<1, 1, 1, 1>> /\ Len(hasCalls) = 1

\* C7: path() returns 2*k integers for a stored path of k cells, the row and
\* the column of the i-th cell at (0-based) positions 2i and 2i+1; it is
\* empty exactly when has_path() is false; repeated calls agree.
C7_FlatPath ==
    /\ \A c \in 1 .. Len(pathCalls) :
          /\ Len(pathCalls[c]) = 2 * Len(path)
          /\ \A i \in 1 .. Len(path) :
                /\ pathCalls[c][2 * i - 1] = path[i][1]
                /\ pathCalls[c][2 * i] = path[i][2]
          /\ \A h \in 1 .. Len(hasCalls) :
                (pathCalls[c] = << >>) <=> ~hasCalls[h]
          /\ pathCalls[c] = pathCalls[1]
    /\ \A h \in 1 .. Len(hasCalls) :
          /\ hasCalls[h] = hasCalls[1]
          /\ hasCalls[h] <=> (path # << >>)

\* path() was called twice on a path of several cells.
C7_Witness == Len(pathCalls) = 2 /\ Len(path) >= 3

C9_Outcome ==
    /\ \A i \in 1 .. Len(dequeued) : dequeued[i] = Dest => i = Len(dequeued)
    /\ Dest \notin expanded
    /\ Dest \in Elems(dequeued) => (Returned /\ path # << >> /\ cur = Dest)
    /\ pc = "done" =>
          \/ /\ dequeued # << >>
             /\ dequeued[Len(dequeued)] = Dest
             /\ path = build_path(parent, Dest)
          \/ /\ Dest \notin Elems(dequeued)
             /\ queue = << >>
             /\ path = << >>

C9_Terminates == []C9_Outcome /\ <>(pc = "done")

\* The destination was dequeued while another cell was still queued.
C9_Witness == Returned /\ path # << >> /\ queue # << >>

\* C10: a non-empty returned path is a walk in the grid: its cells are in
\* bounds and free, consecutive cells are 4-adjacent, no cell occurs twice,
\* and it is the chain of parent links from the destination, which ends at
\* the start within n*n cells.
C10_ValidWalk ==
    (Returned /\ path # << >>) =>
        /\ \A i \in 1 .. Len(path) : FreeCell(path[i])
        /\ \A i \in 1 .. Len(path) - 1 : Adjacent(path[i], path[i + 1])
        /\ Distinct(path)
        /\ Len(path) <= n * n
        /\ \A i \in 2 .. Len(path) : parent[path[i]] = path[i - 1]
        /\ path[1] = <<0, 0>> /\ path[1] \notin DOMAIN parent

\* A path found in a 3x3 grid with a blocked cell.
C10_Witness ==
    /\ Returned
    /\ n = 3
    /\ Len(path) = 5
    /\ \E i \in 1 .. Len(grid) : grid[i] = 0

====
